---- MODULE Spec2Model ----
(***************************************************************************)
(* Model of src/api.py: a Flask-RESTful CRUD service over one SQLAlchemy   *)
(* table (UserModel) stored in SQLite.                                     *)
(*                                                                         *)
(* Two specifications are given.  Spec runs the handlers one request at a  *)
(* time (each action is one whole handler).  SpecConc runs the handlers of *)
(* several requests interleaved at the granularity of their database       *)
(* statements (lookup, flush+commit, refresh / list).                      *)
(***************************************************************************)
EXTENDS Integers, Sequences, FiniteSets, TLC

\* ------------------------------------------------------------------------
\* Bounds of the model
\* ------------------------------------------------------------------------
EmailPool == <<"a@x.com", "b@x.com", "c@x.com", "d@x.com">>

\* <<first_name, last_name>>
NamePool == <<<<"A", "X">>, <<"B", "Y">>, <<"A", "Y">>, <<"B", "X">>>>

MaxEmails == 2

MaxNames == 2

MaxId == 3

NumWorkers == 2

Emails == {EmailPool[i] : i \in 1..MaxEmails}

Names == {NamePool[i] : i \in 1..MaxNames}

FirstNames == {n[1] : n \in Names}

LastNames == {n[2] : n \in Names}

Workers == 1..NumWorkers

\* ------------------------------------------------------------------------
\* Values
\* ------------------------------------------------------------------------
\* an argument that is absent from the request body
Missing == "<missing>"

\* Python None as it appears in a marshalled body
Null == "null"

\* "no object": the result of .first() on an empty result set
NoUser == [id |-> 0, email |-> "", first_name |-> "", last_name |-> ""]

\* the body of a request whose handler never parses it
NoBody == [email |-> Missing, first_name |-> Missing, last_name |-> Missing]

\* the bodies that supply the three arguments
FullBodies ==
    {[email |-> e, first_name |-> n[1], last_name |-> n[2]] : e \in Emails, n \in Names}

\* the bodies that lack one, two or all three of the arguments
PartBodies ==
    {[email |-> IF "email" \in S THEN Missing ELSE EmailPool[1],
      first_name |-> IF "first_name" \in S THEN Missing ELSE NamePool[1][1],
      last_name |-> IF "last_name" \in S THEN Missing ELSE NamePool[1][2]] :
        S \in (SUBSET {"email", "first_name", "last_name"}) \ {{}}}

Bodies == FullBodies \cup PartBodies

\* the bodies sent to User.patch, which never reads args['email']: the
\* email is absent or the first of the pool
PatchBodies == {b \in Bodies : b.email \in {Missing, EmailPool[1]}}

NoReq == [op |-> "none", email |-> "", body |-> NoBody]

NoResp == [status |-> 0, body |-> [message |-> "none"]]

\* ------------------------------------------------------------------------
\* State
\* ------------------------------------------------------------------------
VARIABLES
    schema,     \* TRUE iff the table of UserModel exists in database.db
    table,      \* the rows of the table
    req,        \* the request handled last (Spec)
    resp,       \* the response to it (Spec)
    pre,        \* history: table, created and deleted before that request
    created,    \* history: email -> the user as created, until updated/deleted
    deleted,    \* history: emails deleted and not created again since
    t0,         \* the table at the start of a concurrent run (SpecConc)
    pc,         \* per worker: position in its handler (SpecConc)
    wreq,       \* per worker: its request (SpecConc)
    wuser,      \* per worker: the object its session loaded (SpecConc)
    wresp       \* per worker: its response (SpecConc)

vars == <<schema, table, req, resp, pre, created, deleted, t0, pc, wreq, wuser, wresp>>

seqVars == <<req, resp, pre, created, deleted>>

concVars == <<t0, pc, wreq, wuser, wresp>>

\* ------------------------------------------------------------------------
\* Persistence layer (UserModel, SQLite)
\* ------------------------------------------------------------------------
\* UserModel: the columns of a row
UserModel == [id : 1..MaxId, email : Emails, first_name : FirstNames, last_name : LastNames]

EmailsOf(t) == {r.email : r \in t}

IdsOf(t) == {r.id : r \in t}

MaxOf(S) == CHOOSE m \in S : \A x \in S : x <= m

MinOf(S) == CHOOSE m \in S : \A x \in S : m <= x

\* variant of next_id: the number of rows plus 1
next_id_count(t) == Cardinality(t) + 1

\* id = db.Column(db.Integer, primary_key=True): an INTEGER PRIMARY KEY of
\* SQLite without AUTOINCREMENT; a new row gets the largest id in use plus 1
next_id(t) == IF t = {} THEN 1 ELSE MaxOf(IdsOf(t)) + 1

RECURSIVE SortById(_)
\* the rows of t in the order of a table scan (ascending id)
SortById(t) ==
    IF t = {} THEN <<>>
    ELSE LET r == CHOOSE x \in t : x.id = MinOf(IdsOf(t))
         IN  <<r>> \o SortById(t \ {r})

\* UserModel.query.all()
query_all(t) == SortById(t)

\* variant of filter_by_first: .first() without the filter on email
first_any(t, email) ==
    IF t = {} THEN NoUser ELSE CHOOSE r \in t : r.id = MinOf(IdsOf(t))

\* UserModel.query.filter_by(email=email).first()
filter_by_first(t, email) ==
    LET m == {r \in t : r.email = email}
    IN  IF m = {} THEN NoUser
        ELSE CHOOSE r \in m : r.id = MinOf(IdsOf(m))

\* the attributes of user, expired by the commit, loaded again on access:
\* SELECT ... WHERE id = ? (NoUser: the row is gone, ObjectDeletedError)
refresh(t, user) ==
    IF \E r \in t : r.id = user.id
       THEN CHOOSE r \in t : r.id = user.id
       ELSE NoUser

\* variant of unique_ok: the column declared without unique=True
unique_off(t, email) == TRUE

\* email = db.Column(..., unique=True): the INSERT of a row whose email is
\* already stored raises IntegrityError
unique_ok(t, email) == email \notin EmailsOf(t)

\* db.session.add(user); db.session.commit()
insert(t, args) ==
    t \cup {[id |-> next_id(t), email |-> args.email,
             first_name |-> args.first_name, last_name |-> args.last_name]}

\* db.session.delete(user); db.session.commit(): DELETE ... WHERE id = ?
delete_row(t, user) == {r \in t : r.id # user.id}

\* variant of update_row: the UPDATE without its WHERE clause
update_all(t, user, args) ==
    {[r EXCEPT !.first_name = args.first_name, !.last_name = args.last_name] : r \in t}

\* user.first_name = ...; user.last_name = ...; db.session.commit():
\* UPDATE ... SET <the attributes whose value changed> WHERE id = ?
update_row(t, user, args) ==
    {IF r.id = user.id
        THEN [r EXCEPT !.first_name = IF args.first_name # user.first_name
                                         THEN args.first_name ELSE @,
                       !.last_name = IF args.last_name # user.last_name
                                        THEN args.last_name ELSE @]
        ELSE r : r \in t}

\* ------------------------------------------------------------------------
\* Validation and serialization
\* ------------------------------------------------------------------------
\* variant of parse_args: last_name declared without required=True
parse_args_no_last(body) ==
    IF body.email = Missing THEN "email"
    ELSE IF body.first_name = Missing THEN "first_name"
    ELSE "ok"

\* user_args.parse_args(): the three arguments are required; the first one
\* that is absent (in the order they were added) aborts the request
parse_args(body) ==
    IF body.email = Missing THEN "email"
    ELSE IF body.first_name = Missing THEN "first_name"
    ELSE IF body.last_name = Missing THEN "last_name"
    ELSE "ok"

help(field) ==
    IF field = "email" THEN "Email can't be blank"
    ELSE IF field = "first_name" THEN "Forname can't be blank"
    ELSE "Surname can't be blank"

\* userFields applied to one user object
marshal(u) ==
    [id |-> u.id, email |-> u.email,
     first_name |-> u.first_name, last_name |-> u.last_name]

\* userFields applied to a list of user objects
marshal_list(us) == [i \in 1..Len(us) |-> marshal(us[i])]

\* userFields applied to an object without the attributes (the str that
\* User.delete returns): fields.Integer defaults to 0, fields.String to None
marshal_str == [id |-> 0, email |-> Null, first_name |-> Null, last_name |-> Null]

\* ------------------------------------------------------------------------
\* Responses
\* ------------------------------------------------------------------------
BadRequest(field) == [status |-> 400, body |-> [message |-> help(field)]]

\* an exception no handler catches
InternalServerError == [status |-> 500, body |-> [message |-> "Internal Server Error"]]

\* abort(404, "User Not Found!") with abort imported from flask_restful,
\* whose signature is abort(http_status_code, **kwargs): the positional
\* message makes the call itself raise TypeError, which no handler catches
abort(code, message) == InternalServerError

Out(t, r) == [table |-> t, resp |-> r]

\* ------------------------------------------------------------------------
\* Resource handlers, as functions of the database and the request
\* ------------------------------------------------------------------------
\* Users.get
Users_get(s, t) ==
    IF ~s THEN Out(t, InternalServerError)
    ELSE Out(t, [status |-> 200, body |-> marshal_list(query_all(t))])

\* Users.post
Users_post(s, t, body) ==
    IF parse_args(body) # "ok" THEN Out(t, BadRequest(parse_args(body)))
    ELSE IF ~s THEN Out(t, InternalServerError)
    ELSE IF ~unique_ok(t, body.email) THEN Out(t, InternalServerError)
    ELSE LET t2 == insert(t, body)
         IN  Out(t2, [status |-> 201, body |-> marshal_list(query_all(t2))])

\* User.get
User_get(s, t, email) ==
    IF ~s THEN Out(t, InternalServerError)
    ELSE LET user == filter_by_first(t, email)
         IN  IF user = NoUser THEN Out(t, abort(404, "User Not Found!"))
             ELSE Out(t, [status |-> 200, body |-> marshal(user)])

\* User.delete
User_delete(s, t, email) ==
    IF ~s THEN Out(t, InternalServerError)
    ELSE LET user == filter_by_first(t, email)
         IN  IF user = NoUser THEN Out(t, abort(404, "User Not Found!"))
             ELSE Out(delete_row(t, user), [status |-> 204, body |-> marshal_str])

\* User.patch
User_patch(s, t, email, body) ==
    IF parse_args(body) # "ok" THEN Out(t, BadRequest(parse_args(body)))
    ELSE IF ~s THEN Out(t, InternalServerError)
    ELSE LET user == filter_by_first(t, email)
         IN  IF user = NoUser THEN Out(t, abort(404, "User Not Found!"))
             ELSE LET t2 == update_row(t, user, body)
                  IN  Out(t2, [status |-> 200, body |-> marshal(refresh(t2, user))])

\* home
home == [status |-> 200, body |-> [message |-> "<h>Hello World!</h1>"]]

\* ------------------------------------------------------------------------
\* Spec: one request at a time
\* ------------------------------------------------------------------------
Init ==
    /\ schema \in BOOLEAN
    /\ table = {}
    /\ req = NoReq
    /\ resp = NoResp
    /\ pre = [table |-> {}, created |-> [e \in Emails |-> NoUser], deleted |-> {}]
    /\ created = [e \in Emails |-> NoUser]
    /\ deleted = {}
    /\ t0 = {}
    /\ pc = [w \in Workers |-> "idle"]
    /\ wreq = [w \in Workers |-> NoReq]
    /\ wuser = [w \in Workers |-> NoUser]
    /\ wresp = [w \in Workers |-> NoResp]

\* the user with this email in a marshalled list
InList(body, email) ==
    LET m == {i \in 1..Len(body) : body[i].email = email}
    IN  IF m = {} THEN NoUser ELSE body[CHOOSE i \in m : TRUE]

\* the effect of request r answered by out
Serve(r, out) ==
    /\ \A x \in out.table : x.id <= MaxId
    /\ req' = r
    /\ resp' = out.resp
    /\ table' = out.table
    /\ pre' = [table |-> table, created |-> created, deleted |-> deleted]
    /\ created' =
         IF r.op = "create" /\ out.resp.status = 201
            THEN [created EXCEPT ![r.body.email] =
                     [id |-> InList(out.resp.body, r.body.email).id,
                      email |-> r.body.email,
                      first_name |-> r.body.first_name,
                      last_name |-> r.body.last_name]]
         ELSE IF (r.op = "patch" /\ out.resp.status = 200)
                 \/ (r.op = "delete" /\ out.resp.status = 204)
            THEN [created EXCEPT ![r.email] = NoUser]
         ELSE created
    /\ deleted' =
         IF r.op = "create" /\ out.resp.status = 201
            THEN deleted \ {r.body.email}
         ELSE IF r.op = "delete" /\ out.resp.status = 204
            THEN deleted \cup {r.email}
         ELSE deleted
    /\ UNCHANGED <<schema, t0, pc, wreq, wuser, wresp>>

\* GET /api/users/
GetUsers ==
    Serve([op |-> "list", email |-> "", body |-> NoBody], Users_get(schema, table))

\* POST /api/users/
PostUsers ==
    \E b \in Bodies :
        Serve([op |-> "create", email |-> "", body |-> b], Users_post(schema, table, b))

\* GET /api/users/<email>
GetUser ==
    \E e \in Emails :
        Serve([op |-> "get", email |-> e, body |-> NoBody], User_get(schema, table, e))

\* DELETE /api/users/<email>
DeleteUser ==
    \E e \in Emails :
        Serve([op |-> "delete", email |-> e, body |-> NoBody], User_delete(schema, table, e))

\* PATCH /api/users/<email>
PatchUser ==
    \E e \in Emails, b \in PatchBodies :
        Serve([op |-> "patch", email |-> e, body |-> b], User_patch(schema, table, e, b))

\* GET /
GetHome ==
    Serve([op |-> "home", email |-> "", body |-> NoBody], Out(table, home))

Next ==
    \/ GetUsers
    \/ PostUsers
    \/ GetUser
    \/ DeleteUser
    \/ PatchUser
    \/ GetHome

Spec == Init /\ [][Next]_vars


\* ------------------------------------------------------------------------
\* Properties of Spec
\* ------------------------------------------------------------------------
AnyMissing(b) == Missing \in {b.email, b.first_name, b.last_name}

RowEmails(t) == {r.email : r \in t}

\* body is a list holding exactly the rows of t
ListsExactly(body, t) ==
    /\ Len(body) = Cardinality(t)
    /\ {body[i] : i \in 1..Len(body)} =
         {[id |-> r.id, email |-> r.email,
           first_name |-> r.first_name, last_name |-> r.last_name] : r \in t}

\* C1: a create with all three fields and an email not yet stored, against
\* an existing table, answers 201 with the full updated list; the table is
\* the previous rows unchanged plus exactly one new row that carries the
\* supplied fields and an id no other row has; a list shows the same rows
\* and writes nothing.
C1_CreateAddsOneRow ==
    /\ (/\ req.op = "create"
        /\ schema
        /\ ~AnyMissing(req.body)
        /\ req.body.email \notin RowEmails(pre.table))
       => /\ resp.status = 201
          /\ ListsExactly(resp.body, table)
          /\ \E r \in table :
                /\ r \notin pre.table
                /\ table = pre.table \cup {r}
                /\ r.email = req.body.email
                /\ r.first_name = req.body.first_name
                /\ r.last_name = req.body.last_name
                /\ \A o \in table \ {r} : o.id # r.id
    /\ (req.op = "list" /\ schema)
       => /\ resp.status = 200
          /\ ListsExactly(resp.body, table)
          /\ table = pre.table

C1_Witness ==
    /\ req.op = "create"
    /\ resp.status = 201
    /\ Cardinality(pre.table) = 1
    /\ Cardinality(table) = 2
    /\ \E r \in pre.table : r.id > 1

\* C2: a create in which at least one of email, first_name, last_name is
\* missing answers 400 and leaves the table as it was.
C2_InvalidCreateRejected ==
    (req.op = "create" /\ AnyMissing(req.body))
       => /\ resp.status = 400
          /\ table = pre.table

C2_Witness ==
    /\ req.op = "create"
    /\ req.body.email # Missing
    /\ req.body.first_name # Missing
    /\ req.body.last_name = Missing
    /\ resp.status = 400
    /\ table # {}

\* C3: no two rows of the table have the same email, and a create whose
\* email equals that of an existing row fails and leaves the table as it was.
C3_EmailUnique ==
    /\ \A r1 \in table : \A r2 \in table : r1.email = r2.email => r1 = r2
    /\ (/\ req.op = "create"
        /\ ~AnyMissing(req.body)
        /\ req.body.email \in RowEmails(pre.table))
       => /\ resp.status >= 400
          /\ table = pre.table

C3_Witness ==
    /\ req.op = "create"
    /\ ~AnyMissing(req.body)
    /\ req.body.email \in RowEmails(pre.table)
    /\ resp.status = 500
    /\ Cardinality(table) = 2

\* C4: a PATCH for the email of an existing user whose body supplies
\* first_name and last_name and no email answers 200, sets the row's
\* first_name and last_name to the supplied values and returns the updated
\* user.
C4_PatchWithoutEmail ==
    (/\ req.op = "patch"
     /\ req.email \in RowEmails(pre.table)
     /\ req.body.email = Missing
     /\ req.body.first_name # Missing
     /\ req.body.last_name # Missing)
       => /\ resp.status = 200
          /\ \E r \in table :
                /\ r.email = req.email
                /\ r.first_name = req.body.first_name
                /\ r.last_name = req.body.last_name
                /\ resp.body = [id |-> r.id, email |-> r.email,
                                first_name |-> r.first_name,
                                last_name |-> r.last_name]

\* C5: against an existing table, get, delete and update of an email that
\* matches no row answer 404 "User Not Found!" whatever the body, and leave
\* the table as it was.
C5_NotFound ==
    (/\ req.op \in {"get", "delete", "patch"}
     /\ schema
     /\ req.email \notin RowEmails(pre.table))
       => /\ resp.status = 404
          /\ resp.body = [message |-> "User Not Found!"]
          /\ table = pre.table

\* C6: a successful update changes only first_name and last_name of the row
\* with the email of the URL: that row keeps its email and id, every other
\* row and the number of rows are unchanged.
C6_UpdateFrame ==
    (req.op = "patch" /\ resp.status = 200)
       => \E old \in pre.table : \E new \in table :
             /\ old.email = req.email
             /\ new.email = old.email
             /\ new.id = old.id
             /\ new.first_name = req.body.first_name
             /\ new.last_name = req.body.last_name
             /\ table \ {new} = pre.table \ {old}
             /\ Cardinality(table) = Cardinality(pre.table)

C6_Witness ==
    /\ req.op = "patch"
    /\ resp.status = 200
    /\ Cardinality(table) = 2
    /\ req.body.email # req.email
    /\ table # pre.table
    /\ \E o \in table : o.email # req.email /\ o.first_name # req.body.first_name

\* C7: a delete answered 204 removes exactly the row with that email and
\* leaves the other rows unchanged; from then until a later create with the
\* same email no list result contains the email and every further delete or
\* get of it answers 404.
C7_DeleteThenNotFound ==
    /\ (req.op = "delete" /\ resp.status = 204)
       => \E r \in pre.table : r.email = req.email /\ table = pre.table \ {r}
    /\ \A e \in deleted :
          /\ e \notin RowEmails(table)
          /\ (req.op = "list" /\ resp.status = 200)
             => \A i \in 1..Len(resp.body) : resp.body[i].email # e
    /\ (req.op \in {"get", "delete"} /\ req.email \in pre.deleted)
       => resp.status = 404

\* C8: after a successful create and with no update or delete of that
\* email since, whatever was done to other emails, get(email) answers 200
\* with the email, first_name and last_name supplied at creation and the id
\* assigned at creation; get changes no row.
C8_CreateGetRoundTrip ==
    /\ (req.op = "get" /\ created[req.email] # NoUser)
       => /\ resp.status = 200
          /\ resp.body = created[req.email]
          /\ resp.body.email = req.email
    /\ req.op = "get" => table = pre.table

C8_Witness ==
    /\ req.op = "get"
    /\ created[req.email] # NoUser
    /\ resp.status = 200
    /\ resp.body.id > 1
    /\ \E o \in table : o.email # req.email /\ o.id < resp.body.id

\* C9: list always succeeds, also against storage in which the schema does
\* not exist yet: it answers 200 with all current rows and writes nothing.
C9_ListAlwaysSucceeds ==
    req.op = "list"
       => /\ resp.status = 200
          /\ ListsExactly(resp.body, table)
          /\ table = pre.table


\* ------------------------------------------------------------------------
\* SpecConc: the handlers of concurrent requests, one database statement
\* per step; every worker serves one request with a session of its own
\* ------------------------------------------------------------------------
RowShape == [id : 1..MaxId, first_name : {NamePool[1][1]}, last_name : {NamePool[1][2]}]

\* the tables a concurrent run starts from: users created with the first
\* name of the pool, under distinct ids
StartTables ==
    UNION {{{[id |-> f[e].id, email |-> e,
              first_name |-> f[e].first_name, last_name |-> f[e].last_name] : e \in S} :
              f \in {g \in [S -> RowShape] :
                       \A a \in S : \A b \in S : a # b => g[a].id # g[b].id}} :
           S \in SUBSET Emails}

\* the bodies of concurrent requests: complete, or empty
ConcBodies == FullBodies \cup {NoBody}

ConcRequests ==
    {[op |-> "list", email |-> "", body |-> NoBody]}
    \cup {[op |-> "create", email |-> "", body |-> b] : b \in ConcBodies}
    \cup {[op |-> o, email |-> e, body |-> NoBody] : o \in {"get", "delete"}, e \in Emails}
    \cup {[op |-> "patch", email |-> e, body |-> b] : e \in Emails, b \in ConcBodies \cap PatchBodies}

InitConc ==
    /\ schema = TRUE
    /\ table \in StartTables
    /\ t0 = table
    /\ req = NoReq
    /\ resp = NoResp
    /\ pre = [table |-> {}, created |-> [e \in Emails |-> NoUser], deleted |-> {}]
    /\ created = [e \in Emails |-> NoUser]
    /\ deleted = {}
    /\ pc = [w \in Workers |-> "idle"]
    /\ wreq = [w \in Workers |-> NoReq]
    /\ wuser = [w \in Workers |-> NoUser]
    /\ wresp = [w \in Workers |-> NoResp]

Done(w, r) ==
    /\ wresp' = [wresp EXCEPT ![w] = r]
    /\ pc' = [pc EXCEPT ![w] = "done"]

Goto(w, label) ==
    /\ pc' = [pc EXCEPT ![w] = label]
    /\ UNCHANGED wresp

\* the request arrives; user_args.parse_args() of Users.post and User.patch
Begin(w) ==
    /\ pc[w] = "idle"
    /\ \E r \in ConcRequests :
          /\ wreq' = [wreq EXCEPT ![w] = r]
          /\ IF r.op \in {"create", "patch"} /\ parse_args(r.body) # "ok"
                THEN Done(w, BadRequest(parse_args(r.body)))
             ELSE IF r.op = "list" THEN Goto(w, "query")
             ELSE IF r.op = "create" THEN Goto(w, "insert")
             ELSE Goto(w, "lookup")
    /\ UNCHANGED <<schema, table, t0, wuser, seqVars>>

\* UserModel.query.all() of Users.get and of Users.post
Query(w) ==
    /\ pc[w] = "query"
    /\ Done(w, [status |-> IF wreq[w].op = "create" THEN 201 ELSE 200,
                body |-> marshal_list(query_all(table))])
    /\ UNCHANGED <<schema, table, t0, wreq, wuser, seqVars>>

\* db.session.add(user); db.session.commit() of Users.post
Insert(w) ==
    /\ pc[w] = "insert"
    /\ IF ~unique_ok(table, wreq[w].body.email)
          THEN Done(w, InternalServerError) /\ UNCHANGED table
          ELSE /\ next_id(table) <= MaxId
               /\ table' = insert(table, wreq[w].body)
               /\ Goto(w, "query")
    /\ UNCHANGED <<schema, t0, wreq, wuser, seqVars>>

\* UserModel.query.filter_by(email=email).first() of User.get, User.delete
\* and User.patch, and the not-found check
Lookup(w) ==
    /\ pc[w] = "lookup"
    /\ LET user == filter_by_first(table, wreq[w].email)
       IN  /\ wuser' = [wuser EXCEPT ![w] = user]
           /\ IF user = NoUser THEN Done(w, abort(404, "User Not Found!"))
              ELSE IF wreq[w].op = "get"
                 THEN Done(w, [status |-> 200, body |-> marshal(user)])
              ELSE IF wreq[w].op = "delete" THEN Goto(w, "delete")
              ELSE Goto(w, "update")
    /\ UNCHANGED <<schema, table, t0, wreq, seqVars>>

\* db.session.delete(user); db.session.commit() of User.delete: a DELETE that
\* matches no row is only warned about (confirm_deleted_rows)
Delete(w) ==
    /\ pc[w] = "delete"
    /\ table' = delete_row(table, wuser[w])
    /\ Done(w, [status |-> 204, body |-> marshal_str])
    /\ UNCHANGED <<schema, t0, wreq, wuser, seqVars>>

\* the assignments and db.session.commit() of User.patch: an UPDATE is
\* emitted when an attribute changed, and raises StaleDataError when it
\* matches no row
Update(w) ==
    /\ pc[w] = "update"
    /\ LET args == wreq[w].body
           changed == \/ args.first_name # wuser[w].first_name
                      \/ args.last_name # wuser[w].last_name
       IN  IF changed /\ refresh(table, wuser[w]) = NoUser
              THEN Done(w, InternalServerError) /\ UNCHANGED table
              ELSE /\ table' = update_row(table, wuser[w], args)
                   /\ Goto(w, "refresh")
    /\ UNCHANGED <<schema, t0, wreq, wuser, seqVars>>

\* return user of User.patch: marshalling reads the expired attributes
Refresh(w) ==
    /\ pc[w] = "refresh"
    /\ LET user == refresh(table, wuser[w])
       IN  IF user = NoUser THEN Done(w, InternalServerError)
           ELSE Done(w, [status |-> 200, body |-> marshal(user)])
    /\ UNCHANGED <<schema, table, t0, wreq, wuser, seqVars>>

NextConc ==
    \E w \in Workers :
        \/ Begin(w)
        \/ Query(w)
        \/ Insert(w)
        \/ Lookup(w)
        \/ Delete(w)
        \/ Update(w)
        \/ Refresh(w)

SpecConc == InitConc /\ [][NextConc]_vars

\* ------------------------------------------------------------------------
\* Properties of SpecConc
\* ------------------------------------------------------------------------
\* the handler of request r run alone on table t
Handle(t, r) ==
    IF r.op = "list" THEN Users_get(TRUE, t)
    ELSE IF r.op = "create" THEN Users_post(TRUE, t, r.body)
    ELSE IF r.op = "get" THEN User_get(TRUE, t, r.email)
    ELSE IF r.op = "delete" THEN User_delete(TRUE, t, r.email)
    ELSE User_patch(TRUE, t, r.email, r.body)

Orders ==
    {o \in [1..NumWorkers -> Workers] : \A i \in 1..NumWorkers : \A j \in 1..NumWorkers :
                                           i # j => o[i] # o[j]}

RECURSIVE Serial(_, _, _)
\* running the workers' requests alone, in the order o from position i on
\* and starting from table t, gives each worker the response it got and
\* ends in the current table
Serial(o, i, t) ==
    IF i > NumWorkers THEN t = table
    ELSE LET out == Handle(t, wreq[o[i]])
         IN  /\ out.resp.status = wresp[o[i]].status
             /\ out.resp.body = wresp[o[i]].body
             /\ Serial(o, i + 1, out.table)

\* C10: when all concurrent requests have been answered, the responses and
\* the table are those of the same requests run one at a time in some
\* order; two concurrent deletes of one email are not both answered 204.
C10_Serializable ==
    (\A w \in Workers : pc[w] = "done")
       => /\ \E o \in Orders : Serial(o, 1, t0)
          /\ \A v \in Workers : \A w \in Workers :
                (/\ v # w
                 /\ wreq[v].op = "delete"
                 /\ wreq[w].op = "delete"
                 /\ wreq[v].email = wreq[w].email)
                => ~(wresp[v].status = 204 /\ wresp[w].status = 204)

====
